---- MODULE Spec2Model ----
(***************************************************************************)
(* Model of the two stages of the news pipeline:                           *)
(*   - clean_news_data          (src/openCore/clean_news.py)               *)
(*   - analizar_sentimientos_transformers                                  *)
(*                              (src/openCore/analisisSentimiento.py)      *)
(* Each stage has its own specification (SpecClean, SpecSent); the         *)
(* variables of the other stage stay at their idle values.                 *)
(***************************************************************************)
EXTENDS Integers, Sequences, FiniteSets, TLC

VARIABLES
    \* ---- clean_news_data ----
    input_file,     \* what is on disk at the input path
    output_file,    \* what is on disk at the output path (NoFile or a record list)
    data,           \* local `data`
    valid_data,     \* local `valid_data`
    seen_titles,    \* local `seen_titles`
    seen_links,     \* local `seen_links`
    unique_data,    \* local `unique_data`
    di,             \* position of the dedup loop in valid_data (next index)
    cpc,            \* position of clean_news_data
    reported,       \* error message printed by clean_news_data, or "none"
    run,            \* 1 for the first run, 2 for the run on the first run's output
    first_output,   \* the output of run 1, the input records of run 2
    \* ---- analizar_sentimientos_transformers ----
    texto,          \* argument `texto`, as a sequence of character runs
    sentences,      \* local `sentences`
    si,             \* position of the sentence loop (next index)
    current_chunk,  \* local `current_chunk`
    chunk_count,    \* local `chunk_count`
    sentiment_scores, \* local `sentiment_scores` (sums, in hundredths)
    max_sentiment,  \* local `max_sentiment`: <<label, sum, count>>
    calls,          \* the calls made to clasificador_sentimientos, in order
    spc,            \* position of analizar_sentimientos_transformers
    sresult         \* the returned label, or "none"

cleanVars == <<input_file, output_file, data, valid_data, seen_titles, seen_links,
               unique_data, di, cpc, reported, run, first_output>>
sentVars == <<texto, sentences, si, current_chunk, chunk_count, sentiment_scores,
              max_sentiment, calls, spc, sresult>>
vars == <<cleanVars, sentVars>>

(***************************************************************************)
(* Bounds                                                                  *)
(***************************************************************************)
MaxRecords == 3     \* longest input array of the cleaning stage
MaxRuns == 5        \* longest body text, in character runs

(***************************************************************************)
(* Generic helpers                                                         *)
(***************************************************************************)
RECURSIVE SeqsUpTo(_, _)
SeqsUpTo(S, n) ==
    IF n = 0 THEN {<<>>}
    ELSE LET shorter == SeqsUpTo(S, n - 1)
         IN shorter \cup {Append(s, x) : s \in {t \in shorter : Len(t) = n - 1}, x \in S}

(***************************************************************************)
(* JSON values and text of the cleaning stage.  A text is a sequence of    *)
(* characters; "b1" and "b2" stand for the letter b mis-decoded once and   *)
(* twice (mojibake).                                                       *)
(***************************************************************************)
Absent == [k |-> "absent", v |-> <<>>]   \* key not in the record
Null == [k |-> "null", v |-> <<>>]       \* JSON null
Zero == [k |-> "zero", v |-> <<>>]       \* the number 0 (falsy, not text)
Num == [k |-> "num", v |-> <<>>]         \* a non-zero number (truthy, not text)
Str(s) == [k |-> "str", v |-> s]

IsSpace(c) == c = " "

\* str.lower(), per character
LowerChar(c) == IF c = "A" THEN "a" ELSE IF c = "X" THEN "x" ELSE c
Lower(s) == [i \in 1..Len(s) |-> LowerChar(s[i])]

\* str.strip(): drop leading and trailing whitespace
RECURSIVE LStrip(_)
LStrip(s) == IF s # <<>> /\ IsSpace(Head(s)) THEN LStrip(Tail(s)) ELSE s
RECURSIVE RStrip(_)
RStrip(s) ==
    IF s # <<>> /\ IsSpace(s[Len(s)]) THEN RStrip(SubSeq(s, 1, Len(s) - 1)) ELSE s
Strip(s) == RStrip(LStrip(s))

\* ftfy: one decoding pass undoes one layer of mis-decoding
FixCharOnce(c) == IF c = "b2" THEN "b1" ELSE IF c = "b1" THEN "b" ELSE c
FixOneLayer(s) == [i \in 1..Len(s) |-> FixCharOnce(s[i])]
\* ftfy.fix_text: decoding passes are repeated until the text no longer changes
RECURSIVE FixText(_)
FixText(s) == LET t == FixOneLayer(s) IN IF t = s THEN s ELSE FixText(t)

(***************************************************************************)
(* Records of the input collection                                         *)
(***************************************************************************)
TextKeys == <<"title", "content", "link">>                      \* line 30
required_fields == <<"image_url", "title", "content", "link">>  \* line 35

\* a JSON object with the four keys of interest (Absent: key missing)
Rec(t, c, l, u) ==
    [kind |-> "rec", text |-> "", title |-> t, content |-> c, link |-> l, image_url |-> u]
\* a JSON string standing where a record is expected (also: a key of a top-level object)
StrItem(s) ==
    [kind |-> "str", text |-> s, title |-> Absent, content |-> Absent, link |-> Absent,
     image_url |-> Absent]
\* a JSON number standing where a record is expected
NumItem ==
    [kind |-> "num", text |-> "", title |-> Absent, content |-> Absent, link |-> Absent,
     image_url |-> Absent]

GoodTitles == {<<"A">>, <<"a", " ">>, <<"b2">>}
GoodLinks == {<<"x">>, <<"X">>, <<"y">>}
GoodRecords == {Rec(Str(t), Str(<<"c">>), Str(l), Str(<<"u">>)) : t \in GoodTitles, l \in GoodLinks}
OddRecords ==
    { Rec(Absent, Str(<<"c">>), Str(<<"x">>), Str(<<"u">>)),
      Rec(Num, Str(<<"c">>), Str(<<"x">>), Str(<<"u">>)),
      Rec(Str(<<" ">>), Str(<<"c">>), Str(<<"x">>), Str(<<"u">>)),
      Rec(Str(<<"A">>), Null, Str(<<"x">>), Str(<<"u">>)),
      Rec(Str(<<"A">>), Str(<<"c">>), Zero, Str(<<"u">>)),
      Rec(Str(<<"A">>), Str(<<"c">>), Str(<<"x">>), Absent),
      Rec(Str(<<"A">>), Str(<<"c">>), Str(<<"x">>), Str(<<>>)),
      Rec(Str(<<"b1">>), Str(<<" ", "c">>), Str(<<"y", " ">>), Str(<<" ">>)) }
NonRecords == {StrItem("abc"), StrItem("subtitle"), NumItem}
Items == GoodRecords \cup OddRecords \cup NonRecords

InputFiles ==
    { [kind |-> k, items |-> <<>>] : k \in {"missing", "badjson", "number"} }
    \cup { [kind |-> "object", items |-> ks] :
             ks \in {<<>>, <<StrItem("abc")>>, <<StrItem("abc"), StrItem("subtitle")>>} }
    \cup { [kind |-> "array", items |-> its] : its \in SeqsUpTo(Items, MaxRecords) }

NoFile == [exists |-> FALSE, items |-> <<>>]
Written(items) == [exists |-> TRUE, items |-> items]

(***************************************************************************)
(* clean_news_data, line by line                                           *)
(***************************************************************************)
\* `key in item` for a string item is a substring test; of the strings of
\* NonRecords only "subtitle" contains a key ("title")
Contains(text, key) == text = "subtitle" /\ key = "title"

\* `key in item`: "yes", "no", or "raise" (TypeError: a number is not iterable)
KeyIn(key, item) ==
    CASE item.kind = "rec" -> IF item[key].k # "absent" THEN "yes" ELSE "no"
      [] item.kind = "str" -> IF Contains(item.text, key) THEN "yes" ELSE "no"
      [] OTHER -> "raise"

\* item[key] raises TypeError unless item is a record (string indices must be integers)
IndexRaises(item) == item.kind # "rec"

isinstance_str(v) == v.k = "str"
Truthy(v) == (v.k = "str" /\ v.v # <<>>) \/ v.k = "num"

\* line 32: ftfy.fix_text(item[key]).strip()
RepairTextOneLayer(s) == Strip(FixOneLayer(s))
RepairText(s) == Strip(FixText(s))

\* lines 30-32 for one item: the item after the inner loop, or "raise"
RECURSIVE RepairItem(_, _)
RepairItem(item, k) ==
    IF k > Len(TextKeys) THEN [raised |-> FALSE, item |-> item]
    ELSE LET key == TextKeys[k]
             has == KeyIn(key, item)
         IN IF has = "raise" \/ (has = "yes" /\ IndexRaises(item))
            THEN [raised |-> TRUE, item |-> item]
            ELSE IF has = "yes" /\ isinstance_str(item[key])
            THEN RepairItem([item EXCEPT ![key] = Str(RepairText(item[key].v))], k + 1)
            ELSE RepairItem(item, k + 1)

\* lines 29-32: the whole loop; stops at the first item that raises
RECURSIVE RepairAll(_, _)
RepairAll(its, i) ==
    IF i > Len(its) THEN [raised |-> FALSE, items |-> its]
    ELSE LET r == RepairItem(its[i], 1)
         IN IF r.raised THEN [raised |-> TRUE, items |-> its]
            ELSE RepairAll([its EXCEPT ![i] = r.item], i + 1)

\* lines 38-39: all(key in item and item[key] and isinstance(item[key], str) ...)
\* "keep", "drop" or "raise"; all() stops at the first key that fails
FieldOkNoType(item, key) == Truthy(item[key])
FieldOk(item, key) == Truthy(item[key]) /\ isinstance_str(item[key])
RECURSIVE HasRequired(_, _)
HasRequired(item, k) ==
    IF k > Len(required_fields) THEN "keep"
    ELSE LET key == required_fields[k]
             has == KeyIn(key, item)
         IN IF has = "raise" \/ (has = "yes" /\ IndexRaises(item)) THEN "raise"
            ELSE IF has = "no" THEN "drop"
            ELSE IF FieldOk(item, key) THEN HasRequired(item, k + 1)
            ELSE "drop"

\* lines 36-40: the list comprehension
RECURSIVE FilterAll(_, _, _)
FilterAll(its, i, acc) ==
    IF i > Len(its) THEN [raised |-> FALSE, items |-> acc]
    ELSE LET h == HasRequired(its[i], 1)
         IN IF h = "raise" THEN [raised |-> TRUE, items |-> acc]
            ELSE FilterAll(its, i + 1, IF h = "keep" THEN Append(acc, its[i]) ELSE acc)

\* lines 51-52: item[key].strip().lower()
NormKeyNoLower(s) == Strip(s)
NormKey(s) == Lower(Strip(s))

\* line 54: title not in seen_titles and link not in seen_links
IsNewEither(title, link, st, sl) == title \notin st \/ link \notin sl
IsNew(title, link, st, sl) == title \notin st /\ link \notin sl

\* lines 54-56: seen.add(key), inside the `if` only
SeenAfterAlways(seen, key, new) == seen \cup {key}
SeenAfter(seen, key, new) == IF new THEN seen \cup {key} ELSE seen

CleanIdle ==
    /\ data = <<>> /\ valid_data = <<>> /\ unique_data = <<>>
    /\ seen_titles = {} /\ seen_links = {} /\ di = 1

SentIdle ==
    /\ texto = <<>> /\ sentences = <<>> /\ si = 1 /\ current_chunk = <<>>
    /\ chunk_count = 0
    /\ sentiment_scores = [l \in {"positive", "negative", "neutral"} |-> 0]
    /\ max_sentiment = <<"none", 0, 1>>
    /\ calls = <<>> /\ spc = "idle" /\ sresult = "none"

InitClean ==
    /\ input_file \in InputFiles
    /\ output_file = NoFile
    /\ CleanIdle
    /\ cpc = "load" /\ reported = "none" /\ run = 1 /\ first_output = <<>>
    /\ SentIdle

\* lines 16-26: open and parse the input, print its length
Load ==
    /\ cpc = "load"
    /\ CASE input_file.kind = "missing" ->
              /\ reported' = "not_found" /\ cpc' = "returned" /\ data' = data
         [] input_file.kind = "badjson" ->
              /\ reported' = "invalid_json" /\ cpc' = "returned" /\ data' = data
         [] input_file.kind = "number" ->   \* len(data) raises TypeError, uncaught
              /\ reported' = reported /\ cpc' = "crashed" /\ data' = data
         [] OTHER ->   \* an array, or an object (iterating it yields its keys)
              /\ reported' = reported /\ cpc' = "repair" /\ data' = input_file.items
    /\ UNCHANGED <<input_file, output_file, valid_data, seen_titles, seen_links,
                   unique_data, di, run, first_output, sentVars>>

\* lines 29-32
Repair ==
    /\ cpc = "repair"
    /\ LET r == RepairAll(data, 1)
       IN /\ data' = r.items
          /\ cpc' = IF r.raised THEN "crashed" ELSE "filter"
    /\ UNCHANGED <<input_file, output_file, valid_data, seen_titles, seen_links,
                   unique_data, di, reported, run, first_output, sentVars>>

\* lines 35-47
Filter ==
    /\ cpc = "filter"
    /\ LET r == FilterAll(data, 1, <<>>)
       IN IF r.raised
          THEN /\ cpc' = "crashed"
               /\ UNCHANGED <<valid_data, seen_titles, seen_links, unique_data, di>>
          ELSE /\ cpc' = "dedup"
               /\ valid_data' = r.items
               /\ seen_titles' = {} /\ seen_links' = {} /\ unique_data' = <<>>
               /\ di' = 1
    /\ UNCHANGED <<input_file, output_file, data, reported, run, first_output, sentVars>>

\* lines 49-57: one iteration of the loop
DedupStep ==
    /\ cpc = "dedup"
    /\ di <= Len(valid_data)
    /\ LET item == valid_data[di]
           title == NormKey(item.title.v)
           link == NormKey(item.link.v)
           new == IsNew(title, link, seen_titles, seen_links)
       IN /\ seen_titles' = SeenAfter(seen_titles, title, new)
          /\ seen_links' = SeenAfter(seen_links, link, new)
          /\ unique_data' = IF new THEN Append(unique_data, item) ELSE unique_data
    /\ di' = di + 1
    /\ UNCHANGED <<input_file, output_file, data, valid_data, cpc, reported, run,
                   first_output, sentVars>>

\* lines 62-65: the output is written
SaveOk ==
    /\ cpc = "dedup"
    /\ di > Len(valid_data)
    /\ output_file' = Written(unique_data)
    /\ cpc' = "done"
    /\ UNCHANGED <<input_file, data, valid_data, seen_titles, seen_links, unique_data,
                   di, reported, run, first_output, sentVars>>

\* lines 62-63, 73-74: open() of the output path raises; caught and printed
SaveFails ==
    /\ cpc = "dedup"
    /\ di > Len(valid_data)
    /\ reported' = "save_error"
    /\ cpc' = "done"
    /\ UNCHANGED <<input_file, output_file, data, valid_data, seen_titles, seen_links,
                   unique_data, di, run, first_output, sentVars>>

\* lines 76-87: main() is run again, the first run's output as its input and a
\* fresh output path
RunOnOutput ==
    /\ cpc = "done"
    /\ run = 1
    /\ output_file.exists
    /\ input_file' = [kind |-> "array", items |-> output_file.items]
    /\ first_output' = output_file.items
    /\ output_file' = NoFile
    /\ data' = <<>> /\ valid_data' = <<>> /\ unique_data' = <<>>
    /\ seen_titles' = {} /\ seen_links' = {} /\ di' = 1
    /\ cpc' = "load" /\ run' = 2
    /\ UNCHANGED <<reported, sentVars>>

NextClean ==
    \/ Load
    \/ Repair
    \/ Filter
    \/ DedupStep
    \/ SaveOk
    \/ SaveFails
    \/ RunOnOutput

SpecClean == InitClean /\ [][NextClean]_vars

(***************************************************************************)
(* Claims about clean_news_data                                            *)
(***************************************************************************)
FourKeys == {"image_url", "title", "content", "link"}
Terminated == cpc \in {"done", "returned", "crashed"}

\* C1: the written output holds no two distinct articles with equal lower-cased,
\* trimmed titles, and no two with equal lower-cased, trimmed links.
C1_DedupInvariant ==
    output_file.exists =>
        \A i, j \in 1..Len(output_file.items) :
            i # j =>
                /\ Lower(Strip(output_file.items[i].title.v))
                       # Lower(Strip(output_file.items[j].title.v))
                /\ Lower(Strip(output_file.items[i].link.v))
                       # Lower(Strip(output_file.items[j].link.v))

\* C1 witness: three complete records went in, one was a duplicate, two came out
C1_Witness ==
    /\ run = 1 /\ output_file.exists
    /\ Len(valid_data) = 3 /\ Len(output_file.items) = 2

\* reference deduplication: the indices of valid_data[1..n] that are kept
SameKey(a, b) ==
    \/ Lower(Strip(a.title.v)) = Lower(Strip(b.title.v))
    \/ Lower(Strip(a.link.v)) = Lower(Strip(b.link.v))
RECURSIVE KeptIdx(_, _)
KeptIdx(its, n) ==
    IF n = 0 THEN {}
    ELSE LET before == KeptIdx(its, n - 1)
         IN IF \E k \in before : SameKey(its[k], its[n]) THEN before ELSE before \cup {n}
\* the subsequence of its at the indices of idx, in order
RECURSIVE PickIdx(_, _, _)
PickIdx(its, idx, n) ==
    IF n = 0 THEN <<>>
    ELSE IF n \in idx THEN Append(PickIdx(its, idx, n - 1), its[n])
    ELSE PickIdx(its, idx, n - 1)

\* C6: at every point of the loop unique_data is exactly the records processed so
\* far, in input order, that share neither normalized key with an earlier kept
\* record; the written output is that list for the whole of valid_data.
C6_FirstOccurrenceWins ==
    /\ cpc \in {"dedup", "done"} =>
           unique_data = PickIdx(valid_data, KeptIdx(valid_data, di - 1), di - 1)
    /\ output_file.exists =>
           output_file.items
               = PickIdx(valid_data, KeptIdx(valid_data, Len(valid_data)), Len(valid_data))

\* C6 witness: two complete records with the same normalized title and different
\* links; one record is written
C6_Witness ==
    /\ run = 1 /\ output_file.exists
    /\ Len(valid_data) = 2 /\ Len(output_file.items) = 1
    /\ Lower(Strip(valid_data[1].title.v)) = Lower(Strip(valid_data[2].title.v))
    /\ Lower(Strip(valid_data[1].link.v)) # Lower(Strip(valid_data[2].link.v))
    /\ input_file.items[1].title # input_file.items[2].title

\* C7: the run on the first run's output drops nothing for missing fields, drops
\* nothing as a duplicate, changes no field and no order, and does not fail on
\* its input.
C7_Idempotent ==
    run = 2 =>
        /\ cpc \notin {"crashed", "returned"}
        /\ cpc \in {"filter", "dedup", "done"} => data = first_output
        /\ cpc \in {"dedup", "done"} => valid_data = first_output
        /\ cpc = "done" => unique_data = first_output
        /\ output_file.exists => output_file.items = first_output

\* C7 witness: the second run wrote two records, one of them titled "b"
C7_Witness ==
    /\ run = 2 /\ output_file.exists
    /\ Len(output_file.items) = 2
    /\ \E i \in 1..2 : output_file.items[i].title.v = <<"b">>

\* a well-formed record collection: an array of record objects
WellFormed(f) ==
    /\ f.kind = "array"
    /\ \A i \in 1..Len(f.items) : f.items[i].kind = "rec"

\* C9: when the input is not a well-formed record collection no output file is
\* written, and the run ends with an error reported (a message or an exception).
C9_StructuralErrorNoOutput ==
    ~WellFormed(input_file) =>
        /\ ~output_file.exists
        /\ Terminated => (reported # "none" \/ cpc = "crashed")

\* the four fields of a record as the required-fields rule judges them
Complete(r) ==
    /\ r.kind = "rec"
    /\ \A key \in {"title", "content", "link"} :
           r[key].k = "str" /\ Strip(FixText(r[key].v)) # <<>>
    /\ r.image_url.k = "str" /\ r.image_url.v # <<>>
Repaired(r) ==
    [r EXCEPT !.title = Str(Strip(FixText(r.title.v))),
              !.content = Str(Strip(FixText(r.content.v))),
              !.link = Str(Strip(FixText(r.link.v)))]
RECURSIVE CompleteRepaired(_)
CompleteRepaired(its) ==
    IF its = <<>> THEN <<>>
    ELSE IF Complete(Head(its)) THEN <<Repaired(Head(its))>> \o CompleteRepaired(Tail(its))
    ELSE CompleteRepaired(Tail(its))

\* C10: every written article has the four fields present, of text type and
\* non-empty; the records that pass the filter are exactly the complete ones
\* (title, content, link judged after repair and trimming); an input of records
\* only never raises.
C10_RequiredFields ==
    /\ output_file.exists =>
           \A i \in 1..Len(output_file.items) : \A key \in FourKeys :
               /\ output_file.items[i][key].k = "str"
               /\ output_file.items[i][key].v # <<>>
    /\ cpc \in {"dedup", "done"} => valid_data = CompleteRepaired(input_file.items)
    /\ WellFormed(input_file) => cpc # "crashed"

\* C10 witness: three records went in, two lacked a usable field, one was written
C10_Witness ==
    /\ run = 1 /\ output_file.exists
    /\ Len(input_file.items) = 3 /\ Len(output_file.items) = 1
    /\ \A i \in 1..3 : input_file.items[i].kind = "rec"
    /\ Cardinality({i \in 1..3 : ~Complete(input_file.items[i])}) = 2

(***************************************************************************)
(* analizar_sentimientos_transformers.  A text is a sequence of runs       *)
(* [ch, n]: n copies of the character ch, where "w" is any character that  *)
(* is neither whitespace nor the terminator.                               *)
(***************************************************************************)
ChunkLimit == 500         \* line 48
ConfidenceFloor == 40     \* line 81: 0.4, in hundredths

Labels == <<"positive", "negative", "neutral">>   \* lines 33-37, in dict order
LabelSet == {"positive", "negative", "neutral"}

Run(c, k) == [ch |-> c, n |-> k]
Dot == Run(".", 1)
WordLens == {1, 249, 250}
Runs == {Run("w", k) : k \in WordLens} \cup {Run(" ", 1), Dot}
Texts == SeqsUpTo(Runs, MaxRuns)

\* len(text)
RECURSIVE TextLen(_)
TextLen(t) == IF t = <<>> THEN 0 ELSE Head(t).n + TextLen(Tail(t))

\* text.strip()
RECURSIVE LStripRuns(_)
LStripRuns(t) == IF t # <<>> /\ Head(t).ch = " " THEN LStripRuns(Tail(t)) ELSE t
RECURSIVE RStripRuns(_)
RStripRuns(t) ==
    IF t # <<>> /\ t[Len(t)].ch = " " THEN RStripRuns(SubSeq(t, 1, Len(t) - 1)) ELSE t
StripRuns(t) == RStripRuns(LStripRuns(t))

\* line 40: texto.split('.'), the pieces between terminators, terminators dropped
RECURSIVE SplitFrom(_, _, _)
SplitFrom(t, acc, cur) ==
    IF t = <<>> THEN Append(acc, cur)
    ELSE LET r == Head(t)
         IN IF r.ch # "." THEN SplitFrom(Tail(t), acc, Append(cur, r))
            ELSE IF r.n = 1 THEN SplitFrom(Tail(t), Append(acc, cur), <<>>)
            ELSE SplitFrom(<<Run(".", r.n - 1)>> \o Tail(t), Append(acc, cur), <<>>)
Split(t) == SplitFrom(t, <<>>, <<>>)

\* line 45: len(sentence.strip()) == 0
IsBlank(sentence) == TextLen(StripRuns(sentence)) = 0

\* line 48: len(current_chunk) + len(sentence) < 500
FitsInclusive(chunk, sentence) == TextLen(chunk) + TextLen(sentence) <= ChunkLimit
Fits(chunk, sentence) == TextLen(chunk) + TextLen(sentence) < ChunkLimit

\* lines 49, 58: sentence + "."
WithDot(sentence) == Append(sentence, Dot)

\* line 58: current_chunk = sentence + "."
NewChunkEmpty(sentence) == <<>>
NewChunk(sentence) == WithDot(sentence)

\* what clasificador_sentimientos(chunk)[0] can do: raise, or return a label and
\* a score (in hundredths)
Raised == [ok |-> FALSE, label |-> "none", score |-> 0]
Returned(l, sc) == [ok |-> TRUE, label |-> l, score |-> sc]
Outcomes ==
    {Returned("positive", sc) : sc \in {39, 40, 90}}
    \cup {Returned("negative", sc) : sc \in {20, 90}}
    \cup {Returned("neutral", 90)}

\* lines 53-57, 63-67: a successful call adds its score to its label's sum ...
ScoresAfter(scores, o) ==
    IF o.ok THEN [scores EXCEPT ![o.label] = @ + o.score] ELSE scores
\* ... and counts the chunk; a call that raises changes nothing
CountAfterAlways(count, o) == count + 1
CountAfter(count, o) == IF o.ok THEN count + 1 ELSE count

\* lines 74-75: the average of one label, as the fraction <<sum, count>>
Average(scores, count, l) == <<scores[l], count>>
FracLess(a, b) == a[1] * b[2] < b[1] * a[2]

\* line 78: max(sentiment_scores.items(), key=...): the first maximal item
RECURSIVE MaxFrom(_, _, _, _)
MaxFrom(scores, count, best, k) ==
    IF k > Len(Labels) THEN best
    ELSE IF FracLess(Average(scores, count, best), Average(scores, count, Labels[k]))
    THEN MaxFrom(scores, count, Labels[k], k + 1)
    ELSE MaxFrom(scores, count, best, k + 1)
RECURSIVE MaxFromLast(_, _, _, _)
MaxFromLast(scores, count, best, k) ==
    IF k > Len(Labels) THEN best
    ELSE IF ~FracLess(Average(scores, count, Labels[k]), Average(scores, count, best))
    THEN MaxFromLast(scores, count, Labels[k], k + 1)
    ELSE MaxFromLast(scores, count, best, k + 1)
MaxLabelLast(scores, count) == MaxFromLast(scores, count, Labels[1], 2)
MaxLabel(scores, count) == MaxFrom(scores, count, Labels[1], 2)

\* line 81: max_sentiment[1] < 0.4
BelowFloorInclusive(avg) == avg[1] <= ConfidenceFloor * avg[2]
BelowFloor(avg) == avg[1] < ConfidenceFloor * avg[2]

\* lines 81-88
LabelFor(label, avg) ==
    IF BelowFloor(avg) THEN "Neutro"
    ELSE IF label = "positive" THEN "Positivo"
    ELSE IF label = "negative" THEN "Negativo"
    ELSE "Neutro"

\* lines 70-88: the returned label
ReduceNoGuard(scores, count) ==
    IF count = 0 THEN "ZeroDivisionError"
    ELSE LET m == MaxLabel(scores, count)
         IN LabelFor(m, Average(scores, count, m))
ReduceLabel(scores, count) ==
    IF count = 0 THEN "Neutro"
    ELSE LET m == MaxLabel(scores, count)
         IN LabelFor(m, Average(scores, count, m))

InitSent ==
    /\ texto \in Texts
    /\ sentences = <<>> /\ si = 1 /\ current_chunk = <<>> /\ chunk_count = 0
    /\ sentiment_scores = [l \in LabelSet |-> 0]
    /\ max_sentiment = <<"none", 0, 1>>
    /\ calls = <<>> /\ spc = "split" /\ sresult = "none"
    /\ input_file = [kind |-> "missing", items |-> <<>>]
    /\ output_file = NoFile
    /\ CleanIdle
    /\ cpc = "idle" /\ reported = "none" /\ run = 1 /\ first_output = <<>>

\* lines 33-42
SplitText ==
    /\ spc = "split"
    /\ sentiment_scores' = [l \in LabelSet |-> 0]
    /\ sentences' = Split(texto)
    /\ current_chunk' = <<>>
    /\ chunk_count' = 0
    /\ si' = 1
    /\ spc' = "loop"
    /\ UNCHANGED <<texto, max_sentiment, calls, sresult, cleanVars>>

\* lines 44-46: a sentence that is empty after trimming is skipped
SkipSentence ==
    /\ spc = "loop" /\ si <= Len(sentences)
    /\ IsBlank(sentences[si])
    /\ si' = si + 1
    /\ UNCHANGED <<texto, sentences, current_chunk, chunk_count, sentiment_scores,
                   max_sentiment, calls, spc, sresult, cleanVars>>

\* lines 48-49: the sentence is added to the current chunk
AppendSentence ==
    /\ spc = "loop" /\ si <= Len(sentences)
    /\ ~IsBlank(sentences[si])
    /\ Fits(current_chunk, sentences[si])
    /\ current_chunk' = current_chunk \o WithDot(sentences[si])
    /\ si' = si + 1
    /\ UNCHANGED <<texto, sentences, chunk_count, sentiment_scores, max_sentiment,
                   calls, spc, sresult, cleanVars>>

\* lines 50-51, 58: the sentence does not fit and there is no chunk to close
StartChunk ==
    /\ spc = "loop" /\ si <= Len(sentences)
    /\ ~IsBlank(sentences[si])
    /\ ~Fits(current_chunk, sentences[si])
    /\ current_chunk = <<>>
    /\ current_chunk' = NewChunk(sentences[si])
    /\ si' = si + 1
    /\ UNCHANGED <<texto, sentences, chunk_count, sentiment_scores, max_sentiment,
                   calls, spc, sresult, cleanVars>>

\* the call of lines 53-57 (and 63-67) with outcome o
Classify(o) ==
    /\ calls' = Append(calls, [chunk |-> current_chunk, outcome |-> o])
    /\ sentiment_scores' = ScoresAfter(sentiment_scores, o)
    /\ chunk_count' = CountAfter(chunk_count, o)

\* lines 50-58: the sentence does not fit; the chunk is classified and a new one
\* starts with the sentence
CloseChunk ==
    /\ spc = "loop" /\ si <= Len(sentences)
    /\ ~IsBlank(sentences[si])
    /\ ~Fits(current_chunk, sentences[si])
    /\ current_chunk # <<>>
    /\ \E o \in Outcomes : Classify(o)
    /\ current_chunk' = NewChunk(sentences[si])
    /\ si' = si + 1
    /\ UNCHANGED <<texto, sentences, max_sentiment, spc, sresult, cleanVars>>

\* lines 50-58, the classifier raising: caught at line 56
CloseChunkRaise ==
    /\ spc = "loop" /\ si <= Len(sentences)
    /\ ~IsBlank(sentences[si])
    /\ ~Fits(current_chunk, sentences[si])
    /\ current_chunk # <<>>
    /\ Classify(Raised)
    /\ current_chunk' = NewChunk(sentences[si])
    /\ si' = si + 1
    /\ UNCHANGED <<texto, sentences, max_sentiment, spc, sresult, cleanVars>>

\* lines 61-65: the last chunk is classified
FinalChunk ==
    /\ spc = "loop" /\ si > Len(sentences)
    /\ current_chunk # <<>>
    /\ \E o \in Outcomes : Classify(o)
    /\ spc' = "reduce"
    /\ UNCHANGED <<texto, sentences, si, current_chunk, max_sentiment, sresult, cleanVars>>

\* lines 61-67, the classifier raising: caught at line 66
FinalChunkRaise ==
    /\ spc = "loop" /\ si > Len(sentences)
    /\ current_chunk # <<>>
    /\ Classify(Raised)
    /\ spc' = "reduce"
    /\ UNCHANGED <<texto, sentences, si, current_chunk, max_sentiment, sresult, cleanVars>>

\* line 61: no chunk is left
NoFinalChunk ==
    /\ spc = "loop" /\ si > Len(sentences)
    /\ current_chunk = <<>>
    /\ spc' = "reduce"
    /\ UNCHANGED <<texto, sentences, si, current_chunk, chunk_count, sentiment_scores,
                   max_sentiment, calls, sresult, cleanVars>>

\* lines 70-88
Reduce ==
    /\ spc = "reduce"
    /\ sresult' = ReduceLabel(sentiment_scores, chunk_count)
    /\ max_sentiment' =
           IF chunk_count = 0 THEN max_sentiment
           ELSE LET m == MaxLabel(sentiment_scores, chunk_count)
                IN <<m, sentiment_scores[m], chunk_count>>
    /\ spc' = "done"
    /\ UNCHANGED <<texto, sentences, si, current_chunk, chunk_count, sentiment_scores,
                   calls, cleanVars>>

NextSent ==
    \/ SplitText
    \/ SkipSentence
    \/ AppendSentence
    \/ StartChunk
    \/ CloseChunk
    \/ CloseChunkRaise
    \/ FinalChunk
    \/ FinalChunkRaise
    \/ NoFinalChunk
    \/ Reduce

SpecSent == InitSent /\ [][NextSent]_vars

(***************************************************************************)
(* Claims about analizar_sentimientos_transformers                         *)
(***************************************************************************)
\* the number of sentences of a chunk: each sentence is followed by one terminator
RECURSIVE DotCount(_)
DotCount(t) ==
    IF t = <<>> THEN 0 ELSE (IF Head(t).ch = "." THEN Head(t).n ELSE 0) + DotCount(Tail(t))

\* C2, as stated: every chunk passed to the classifier is shorter than 500
\* characters, unless it is a single sentence longer than 500 characters.
C2_ChunkBelowLimit ==
    \A i \in 1..Len(calls) :
        \/ TextLen(calls[i].chunk) < ChunkLimit
        \/ /\ DotCount(calls[i].chunk) = 1
           /\ TextLen(calls[i].chunk) - 1 > ChunkLimit

\* C2, amended: every chunk passed to the classifier has at most 500 characters
\* (terminators included), unless it is a single sentence of 500 or more
\* characters followed by its terminator.
C2_ChunkAtMostLimit ==
    \A i \in 1..Len(calls) :
        \/ TextLen(calls[i].chunk) <= ChunkLimit
        \/ /\ DotCount(calls[i].chunk) = 1
           /\ TextLen(calls[i].chunk) - 1 >= ChunkLimit

\* C2 witness: a chunk of two sentences and exactly 500 characters was classified,
\* and after it a further chunk
C2_Witness ==
    /\ spc = "done" /\ Len(calls) >= 2
    /\ DotCount(calls[1].chunk) = 2
    /\ TextLen(calls[1].chunk) = ChunkLimit

\* the calls that returned, and the sum of their scores for one label
Successes == {i \in 1..Len(calls) : calls[i].outcome.ok}
RECURSIVE SumUpTo(_, _)
SumUpTo(l, n) ==
    IF n = 0 THEN 0
    ELSE SumUpTo(l, n - 1)
         + (IF calls[n].outcome.ok /\ calls[n].outcome.label = l
            THEN calls[n].outcome.score ELSE 0)
SumOf(l) == SumUpTo(l, Len(calls))
TopSum == CHOOSE x \in {SumOf(l) : l \in LabelSet} : \A l \in LabelSet : SumOf(l) <= x
FirstTop ==
    IF SumOf("positive") = TopSum THEN "positive"
    ELSE IF SumOf("negative") = TopSum THEN "negative"
    ELSE "neutral"
Display(l) ==
    CASE l = "positive" -> "Positivo" [] l = "negative" -> "Negativo" [] OTHER -> "Neutro"

\* the characters handed to the classifier, and those of the sentences to classify
RECURSIVE SubmittedLen(_)
SubmittedLen(n) == IF n = 0 THEN 0 ELSE SubmittedLen(n - 1) + TextLen(calls[n].chunk)
RECURSIVE SentencesLen(_)
SentencesLen(ss) ==
    IF ss = <<>> THEN 0
    ELSE (IF TextLen(StripRuns(Head(ss))) = 0 THEN 0 ELSE TextLen(Head(ss)) + 1)
         + SentencesLen(Tail(ss))

\* C3: a call that raises changes neither the sums nor the count (they always
\* equal the sums and the number of the calls that returned); every sentence is
\* still submitted; the label is computed with the number of successes as divisor.
C3_FailedChunkSkipped ==
    /\ chunk_count = Cardinality(Successes)
    /\ \A l \in LabelSet : sentiment_scores[l] = SumOf(l)
    /\ spc \in {"reduce", "done"} => SubmittedLen(Len(calls)) = SentencesLen(sentences)
    /\ (spc = "done" /\ Successes # {}) =>
           sresult = IF TopSum < ConfidenceFloor * Cardinality(Successes)
                     THEN "Neutro" ELSE Display(FirstTop)

\* C3 witness: three chunks, the second raised; the first and third returned
\* positive at 0.40, which averages 0.40 over two and would not over three
C3_Witness ==
    /\ spc = "done" /\ Len(calls) = 3
    /\ ~calls[2].outcome.ok
    /\ calls[1].outcome = Returned("positive", 40)
    /\ calls[3].outcome = Returned("positive", 40)
    /\ chunk_count = 2
    /\ sresult = "Positivo"

\* C4: with no successfully classified chunk the result is "Neutro"; a body with
\* no character other than whitespace and terminators never reaches the classifier.
C4_NothingClassifiedIsNeutro ==
    /\ (spc = "done" /\ Successes = {}) => sresult = "Neutro"
    /\ (\A i \in 1..Len(texto) : texto[i].ch # "w") => calls = <<>>

\* C4 witness: two chunks, the classifier raised on both
C4_Witness ==
    /\ spc = "done" /\ Len(calls) = 2
    /\ Successes = {}
    /\ sresult = "Neutro"

\* C5: with at least one classified chunk, a top average below 0.4 gives "Neutro"
\* whichever label won; at 0.4 or above the result is the display label of a label
\* with the top average.
C5_ConfidenceFloor ==
    (spc = "done" /\ Successes # {}) =>
        /\ TopSum < ConfidenceFloor * Cardinality(Successes) => sresult = "Neutro"
        /\ TopSum >= ConfidenceFloor * Cardinality(Successes) =>
               sresult \in {Display(l) : l \in {m \in LabelSet : SumOf(m) = TopSum}}

\* C5 witness: two chunks, both positive at exactly 0.40, result "Positivo"
C5_Witness ==
    /\ spc = "done" /\ Len(calls) = 2
    /\ \A i \in 1..2 : calls[i].outcome = Returned("positive", 40)
    /\ sresult = "Positivo"

\* C8: the winning label has the maximal average, and among labels with equal
\* maximal averages it is the first in the order positive, negative, neutral.
C8_FirstMaximalWins ==
    (spc = "done" /\ Successes # {}) =>
        /\ max_sentiment[1] = FirstTop
        /\ max_sentiment[2] = TopSum
        /\ TopSum >= ConfidenceFloor * Cardinality(Successes) =>
               sresult = Display(FirstTop)

\* C8 witness: positive and negative tie at 0.45, above the floor: "Positivo"
C8_Witness ==
    /\ spc = "done" /\ Len(calls) = 2
    /\ SumOf("positive") = 90 /\ SumOf("negative") = 90
    /\ max_sentiment[1] = "positive"
    /\ sresult = "Positivo"

\* the text of the chunks of the first n calls, in submission order
RECURSIVE SubmittedText(_)
SubmittedText(n) ==
    IF n = 0 THEN <<>> ELSE SubmittedText(n - 1) \o calls[n].chunk
\* the first n sentences that are non-empty after trimming, each followed by "."
RECURSIVE SentencesText(_)
SentencesText(n) ==
    IF n = 0 THEN <<>>
    ELSE IF TextLen(StripRuns(sentences[n])) = 0 THEN SentencesText(n - 1)
    ELSE SentencesText(n - 1) \o sentences[n] \o <<Dot>>
\* the sentences joined by the terminator: the text they were split from
RECURSIVE JoinSentences(_)
JoinSentences(n) ==
    IF n = 1 THEN sentences[1] ELSE JoinSentences(n - 1) \o <<Dot>> \o sentences[n]

\* C11: at every point of the loop the chunks submitted so far followed by the
\* current chunk are exactly the non-blank sentences walked so far, in order, each
\* followed by one "."; every submitted chunk is non-empty and ends on a
\* terminator (so no sentence is split); at the end the submitted chunks are all
\* the non-blank sentences of the body, none lost or duplicated.
C11_ChunksCoverSentences ==
    /\ spc \in {"loop", "reduce", "done"} =>
           /\ Len(sentences) >= 1
           /\ JoinSentences(Len(sentences)) = texto
           /\ \A i \in 1..Len(sentences) : \A j \in 1..Len(sentences[i]) :
                  sentences[i][j].ch # "."
    /\ spc = "loop" =>
           SubmittedText(Len(calls)) \o current_chunk = SentencesText(si - 1)
    /\ spc \in {"reduce", "done"} =>
           SubmittedText(Len(calls)) = SentencesText(Len(sentences))
    /\ \A i \in 1..Len(calls) :
           /\ calls[i].chunk # <<>>
           /\ calls[i].chunk[Len(calls[i].chunk)] = Dot

\* C11 witness: two chunks were submitted, the second opened by the sentence that
\* closed the first, and a blank sentence was skipped on the way
C11_Witness ==
    /\ spc = "done" /\ Len(calls) = 2
    /\ \E i \in 1..(Len(sentences) - 1) : TextLen(StripRuns(sentences[i])) = 0
    /\ \E i \in 2..Len(sentences) :
           /\ calls[2].chunk = sentences[i] \o <<Dot>>
           /\ ~Fits(calls[1].chunk, sentences[i])

\* the normalized keys of the records of a list
TitleKeys(its) == {Lower(Strip(its[i].title.v)) : i \in 1..Len(its)}
LinkKeys(its) == {Lower(Strip(its[i].link.v)) : i \in 1..Len(its)}

\* C12: the seen sets hold exactly the keys of the kept records, so a dropped
\* record adds none; a processed record that shares no key with a kept record
\* before it is kept, whatever it shares with dropped records.
C12_SeenOnlyKept ==
    cpc \in {"dedup", "done"} =>
        /\ seen_titles = TitleKeys(unique_data)
        /\ seen_links = LinkKeys(unique_data)
        /\ \A n \in 1..(di - 1) :
               (\A k \in 1..(n - 1) :
                    (\E u \in 1..Len(unique_data) : unique_data[u] = valid_data[k])
                        => ~SameKey(valid_data[k], valid_data[n]))
               => \E u \in 1..Len(unique_data) : unique_data[u] = valid_data[n]

\* C12 witness: the second record repeats the title of the first and is dropped;
\* the third shares its link with the dropped one only, and is kept
C12_Witness ==
    /\ run = 1 /\ output_file.exists
    /\ Len(valid_data) = 3
    /\ output_file.items = <<valid_data[1], valid_data[3]>>
    /\ Lower(Strip(valid_data[2].title.v)) = Lower(Strip(valid_data[1].title.v))
    /\ Lower(Strip(valid_data[2].link.v)) # Lower(Strip(valid_data[1].link.v))
    /\ Lower(Strip(valid_data[3].link.v)) = Lower(Strip(valid_data[2].link.v))
    /\ Lower(Strip(valid_data[3].title.v)) # Lower(Strip(valid_data[1].title.v))
    /\ Cardinality(seen_links) = 2 /\ Cardinality(seen_titles) = 2

====
